---- MODULE Spec2Model ----
(***************************************************************************)
(* A model of src/src/object_creator.py (class ObjectCreator): the helper  *)
(* methods that turn primitive row values into FHIR sub-structures and the *)
(* five create_* builders.  Python strings are TLA+ strings; slicing is    *)
(* SubSeq, concatenation is \o.  A call either returns a value or raises;  *)
(* both are recorded in an outcome record together with the order in which *)
(* the statements of the call were evaluated.                              *)
(***************************************************************************)
EXTENDS Integers, Sequences, FiniteSets, TLC

VARIABLES
    mapping_dict,   \* ObjectCreator._observation_loinc_mapping_dict (class attribute)
    zone,           \* what strftime('%z', gmtime()) returns on this system at this moment
    ns_only,        \* the installed pandas keeps Timestamps in nanoseconds only (pandas 1.x)
    last,           \* the most recent call: operation, arguments, zone, outcome
    saved,          \* an earlier call kept for comparison with a later one
    between         \* number of calls made since `saved` was taken (capped)

vars == <<mapping_dict, zone, ns_only, last, saved, between>>

\* Cap on the counter of calls made after a remembered call.
MaxBetween == 2

(***************************************************************************)
(* Python primitives                                                       *)
(***************************************************************************)

Min(a, b) == IF a < b THEN a ELSE b

\* s[i] for a 1-based index inside the string
CharAt(s, i) == SubSeq(s, i, i)

\* s[:n]
SliceTo(s, n) == SubSeq(s, 1, Min(n, Len(s)))

\* s[a:-b] with 0-based start a and b characters dropped from the end
SliceMid(s, a, b) == SubSeq(s, a + 1, Len(s) - b)

\* index of the first occurrence of the one-character string c in s at or
\* after position i, or 0
RECURSIVE FindFrom(_, _, _)
FindFrom(s, c, i) ==
    IF i > Len(s) THEN 0
    ELSE IF CharAt(s, i) = c THEN i
    ELSE FindFrom(s, c, i + 1)

\* str.split(sep, maxsplit=-1): every occurrence of sep separates two pieces
RECURSIVE split(_, _)
split(s, sep) ==
    LET k == FindFrom(s, sep, 1) IN
    IF k = 0 THEN <<s>>
    ELSE <<SubSeq(s, 1, k - 1)>> \o split(SubSeq(s, k + 1, Len(s)), sep)

IsDigit(c) == c \in {"0", "1", "2", "3", "4", "5", "6", "7", "8", "9"}

DigitVal(c) == CHOOSE d \in 0..9 : CharAt("0123456789", d + 1) = c

\* int(s) for a string of decimal digits
RECURSIVE int(_)
int(s) ==
    IF Len(s) = 0 THEN 0
    ELSE 10 * int(SubSeq(s, 1, Len(s) - 1)) + DigitVal(CharAt(s, Len(s)))

DigitChar(d) == CharAt("0123456789", d + 1)

\* decimal digits of n, zero-padded on the left to at least w characters
\* (strftime's %Y, %m, %d for the values that occur here)
RECURSIVE ZeroPad(_, _)
ZeroPad(n, w) ==
    IF n < 10 /\ w <= 1 THEN DigitChar(n)
    ELSE ZeroPad(n \div 10, w - 1) \o DigitChar(n % 10)

(***************************************************************************)
(* Outcomes of a call                                                      *)
(***************************************************************************)

NoValue == [kind |-> "none"]

\* the call returned val after evaluating `steps`, emitting `warned` warnings
Ok(val, steps, warned) ==
    [ok |-> TRUE, err |-> "", val |-> val, steps |-> steps, warned |-> warned]

\* the call raised err; the last element of steps is the statement that raised
Fail(err, steps, warned) ==
    [ok |-> FALSE, err |-> err, val |-> NoValue, steps |-> steps, warned |-> warned]

(***************************************************************************)
(* fhirclient value objects, as the fields this module sets                *)
(***************************************************************************)

\* FHIRDate(jsonval) keeps the string it was given
FHIRDate(str) == [kind |-> "FHIRDate", origval |-> str]


\* Identifier() with .value set
Identifier(value) == [kind |-> "Identifier", value |-> value]

\* FHIRReference() with .type and .reference set
FHIRReference(type, reference) ==
    [kind |-> "FHIRReference", type |-> type, reference |-> reference]

(***************************************************************************)
(* Module state at run time                                                *)
(***************************************************************************)

\* typing.TYPE_CHECKING is False whenever the module is executed
TYPE_CHECKING == FALSE

\* the names bound in the module's namespace once it is imported: every
\* unconditional import and the class; the import of ResourceName is guarded
\* by `if TYPE_CHECKING:`
ModuleGlobals ==
    {"annotations", "warn", "TYPE_CHECKING", "Coding", "Quantity", "pd", "np", "re",
     "datetime", "gmtime", "strftime", "client", "server", "Encounter", "Patient",
     "Condition", "Period", "FHIRDate", "Identifier", "HumanName", "Address",
     "FHIRReference", "Reference", "CodeableConcept", "Observation", "Procedure",
     "ObjectCreator"}
    \cup (IF TYPE_CHECKING THEN {"ResourceName"} ELSE {})

\* ResourceName.PATIENT of etl_process: an enum member whose value is "Patient"
ResourceName_PATIENT == [value |-> "Patient"]

\* the class attribute as written: an insertion-ordered dict, here the
\* sequence of its (key, value) items
LoincTable ==
    << <<"Apnoe Index (n/h)",       <<"90562-0", "{events}/h", "Apnea index">> >>,
       <<"Hypnopnoe Index (n/h)",   <<"90561-2", "{events}/h", "Hypopnea index">> >>,
       <<"RERA Index (n/h)",        <<"90565-3", "{events}/h", "Respiratory effort-related arousal index">> >>,
       <<"AHI",                     <<"69990-0", "{events}/h", "Apnea hypopnea index 24 hour">> >>,
       <<"RDI",                     <<"90566-1", "{events}/h", "Respiratory disturbance index">> >>,
       <<"RDI / AHI (n/h)",         <<"",        "{events}/h", "">> >>,
       <<"Schlaflatenz (min)",      <<"",        "min",        "">> >>,
       <<"Alter (Jahre)",           <<"30525-0", "a",          "Age">> >>,
       <<"Arousal Index (n/h)",     <<"",        "{events}/h", "">> >>,
       <<"Schnarchzeit (min)",      <<"",        "min",        "">> >>,
       <<"totale Schlafzeit (min)", <<"93832-4", "min",        "Sleep duration">> >>,
       <<"Schnarchen Total (%TST)", <<"",        "%",          "">> >>,
       <<"PLM Index",               <<"",        "",           "">> >> >>

\* dict.keys()
DictKeys(d) == {d[i][1] : i \in DOMAIN d}

\* d[k] for a key of d
DictGet(d, k) == d[CHOOSE i \in DOMAIN d : d[i][1] = k][2]

(***************************************************************************)
(* Helper methods                                                          *)
(***************************************************************************)

\* case_tz of _parse_date_time for z = strftime('%z', gmtime()):
\* z[:3] + ':' + z[1:-2]
case_tz(z) == SliceTo(z, 3) \o ":" \o SliceMid(z, 1, 2)

\* _parse_date_time(datetime_str) under the zone string z
parse_date_time(datetime_str, z) ==
    LET by_space == split(datetime_str, " ") IN
    IF Len(by_space) < 2 THEN Fail("IndexError", <<>>, 0)
    ELSE
        LET case_date == by_space[1]
            by_dot    == split(by_space[2], ".")
        IN
        IF Len(by_dot) < 2 THEN Fail("IndexError", <<>>, 0)
        ELSE
            LET case_time == by_dot[1]
                case_ms   == SliceTo(by_dot[2], 3)
            IN Ok(FHIRDate(case_date \o "T" \o case_time \o "." \o case_ms \o case_tz(z)),
                  <<>>, 0)

\* DATE_PATTERN.match(date_str): \d{2}\.\d{2}\.\d{4} anchored at the first
\* character only
DatePatternMatches(date_str) ==
    /\ Len(date_str) >= 10
    /\ \A i \in {1, 2, 4, 5, 7, 8, 9, 10} : IsDigit(CharAt(date_str, i))
    /\ CharAt(date_str, 3) = "."
    /\ CharAt(date_str, 6) = "."

IsLeap(y) == (y % 4 = 0 /\ y % 100 # 0) \/ y % 400 = 0

DaysInMonth(y, m) ==
    IF m = 2 THEN (IF IsLeap(y) THEN 29 ELSE 28)
    ELSE IF m \in {4, 6, 9, 11} THEN 30 ELSE 31

\* lexicographic order on <<year, month, day>>
DateLeq(a, b) ==
    \/ a[1] < b[1]
    \/ a[1] = b[1] /\ a[2] < b[2]
    \/ a[1] = b[1] /\ a[2] = b[2] /\ a[3] <= b[3]

\* first and last midnight a nanosecond Timestamp can hold
\* (Timestamp.min is 1677-09-21 00:12:43.1, Timestamp.max 2262-04-11 23:47:16.8)
TsMinDate == <<1677, 9, 22>>
TsMaxDate == <<2262, 4, 11>>

\* pd.Timestamp(day=day, month=month, year=year): "" when it constructs, or
\* the exception it raises
TimestampError(year, month, day, nsOnly) ==
    IF year < 1 \/ month < 1 \/ month > 12 \/ day < 1 \/ day > DaysInMonth(year, month)
    THEN "ValueError"
    ELSE IF nsOnly /\ ~(DateLeq(TsMinDate, <<year, month, day>>)
                        /\ DateLeq(<<year, month, day>>, TsMaxDate))
    THEN "OutOfBoundsDatetime"
    ELSE ""

\* strftime with day and month exchanged in the format
strftime_ydm(year, month, day) ==
    ZeroPad(year, 4) \o "-" \o ZeroPad(day, 2) \o "-" \o ZeroPad(month, 2)

\* ts.strftime('%Y-%m-%d')
strftime_ymd(year, month, day) ==
    ZeroPad(year, 4) \o "-" \o ZeroPad(month, 2) \o "-" \o ZeroPad(day, 2)

\* _parse_date(date_str)
parse_date(date_str, nsOnly) ==
    IF ~DatePatternMatches(date_str) THEN Fail("AssertionError", <<>>, 0)
    ELSE
        LET day   == int(SubSeq(date_str, 1, 2))
            month == int(SubSeq(date_str, 4, 5))
            year  == int(SubSeq(date_str, 7, 10))
            e     == TimestampError(year, month, day, nsOnly)
        IN
        IF e # "" THEN Fail(e, <<>>, 0)
        ELSE Ok(FHIRDate(strftime_ymd(year, month, day)), <<>>, 0)

\* _map_gender with a default in place of the raise
map_gender_default(gender) ==
    IF gender = "m" THEN Ok("male", <<>>, 0)
    ELSE Ok("female", <<>>, 0)

\* _map_gender(gender)
map_gender(gender) ==
    IF gender = "m" THEN Ok("male", <<>>, 0)
    ELSE IF gender = "f" \/ gender = "w" THEN Ok("female", <<>>, 0)
    ELSE Fail("Exception", <<>>, 0)

\* _construct_reference(resource_name, ref_id)
construct_reference(resource_name, ref_id) ==
    LET resource_str == resource_name.value IN
    FHIRReference(resource_str, resource_str \o "/" \o ref_id)

\* the call _construct_reference(ResourceName.PATIENT, ref_id) as the builders
\* write it: the argument ResourceName.PATIENT is looked up first
patient_reference(ref_id) ==
    IF "ResourceName" \notin ModuleGlobals THEN Fail("NameError", <<>>, 0)
    ELSE Ok(construct_reference(ResourceName_PATIENT, ref_id), <<>>, 0)

\* _construct_identifier numbering the identifiers it hands out
construct_identifier_numbered(identifier) ==
    <<Identifier(identifier \o "#" \o ZeroPad(between, 1))>>

\* _construct_identifier(identifier)
construct_identifier(identifier) == <<Identifier(identifier)>>

\* _resolve_observation_column(column_name) against the dict d: the value
\* stored for the column is unpacked into the two names `code, unit`
resolve_observation_column(column_name, d) ==
    IF column_name \notin DictKeys(d) THEN Fail("Exception", <<>>, 0)
    ELSE
        LET entry == DictGet(d, column_name) IN
        IF Len(entry) # 2 THEN Fail("ValueError", <<>>, 0)
        ELSE Ok(entry, <<>>, IF entry[1] = "" THEN 1 ELSE 0)

(***************************************************************************)
(* Object create methods.  `steps` lists the statements of the call in the *)
(* order they were evaluated; a call that raises ends with the statement   *)
(* that raised.                                                            *)
(***************************************************************************)

\* row.<name> on a pd.Series raises AttributeError for a label the row lacks
HasAttr(row, name) == name \in DOMAIN row

\* create_encounter building the identifier ahead of the period
create_encounter_identifier_first(case_row, subject_ref_id, z) ==
    LET identifier == construct_identifier(case_row.id)
        start      == parse_date_time(case_row.admission, z)
    IN
    IF ~start.ok THEN Fail(start.err, <<"identifier", "period.start">>, 0)
    ELSE
    LET end == parse_date_time(case_row.discharge, z) IN
    IF ~end.ok THEN Fail(end.err, <<"identifier", "period.start", "period.end">>, 0)
    ELSE
    LET subject == patient_reference(subject_ref_id)
        steps   == <<"identifier", "period.start", "period.end", "status", "subject">>
    IN
    IF ~subject.ok THEN Fail(subject.err, steps, 0)
    ELSE Ok([resource_type |-> "Encounter",
             identifier    |-> identifier,
             status        |-> "finished",
             period        |-> [start |-> start.val, end |-> end.val],
             subject       |-> subject.val],
            steps, 0)

\* create_encounter(case_row, subject_ref_id)
create_encounter(case_row, subject_ref_id, z) ==
    LET start == parse_date_time(case_row.admission, z) IN
    IF ~start.ok THEN Fail(start.err, <<"period.start">>, 0)
    ELSE
    LET end == parse_date_time(case_row.discharge, z) IN
    IF ~end.ok THEN Fail(end.err, <<"period.start", "period.end">>, 0)
    ELSE
    LET identifier == construct_identifier(case_row.id)
        subject    == patient_reference(subject_ref_id)
        steps      == <<"period.start", "period.end", "identifier", "status", "subject">>
    IN
    IF ~subject.ok THEN Fail(subject.err, steps, 0)
    ELSE Ok([resource_type |-> "Encounter",
             identifier    |-> identifier,
             status        |-> "finished",
             period        |-> [start |-> start.val, end |-> end.val],
             subject       |-> subject.val],
            steps, 0)

\* str(n) for a non-negative integer
str(n) == ZeroPad(n, 1)

\* create_patient(patient_row)
create_patient(patient_row, nsOnly) ==
    LET name       == [given |-> <<patient_row.first_name>>, family |-> patient_row.last_name]
        address    == [line       |-> <<patient_row.street>>,
                       postalCode |-> str(patient_row.zip),
                       city       |-> patient_row.city]
        identifier == construct_identifier(patient_row.id)
        gender     == map_gender(patient_row.sex)
    IN
    IF ~gender.ok THEN Fail(gender.err, <<"name", "address", "identifier", "gender">>, 0)
    ELSE
    LET birthDate == parse_date(patient_row.date_of_birth, nsOnly)
        steps     == <<"name", "address", "identifier", "gender", "birthDate">>
    IN
    IF ~birthDate.ok THEN Fail(birthDate.err, steps, 0)
    ELSE Ok([resource_type |-> "Patient",
             identifier    |-> identifier,
             name          |-> <<name>>,
             gender        |-> gender.val,
             birthDate     |-> birthDate.val,
             address       |-> <<address>>],
            steps, 0)

\* create_condition(diagnose_row, subject_ref_id, encounter_ref_id)
create_condition(diagnose_row, subject_ref_id, encounter_ref_id) ==
    IF ~HasAttr(diagnose_row, "sytem") THEN Fail("AttributeError", <<"assert system">>, 0)
    ELSE IF diagnose_row.sytem # "ICD-10-GM" THEN Fail("AssertionError", <<"assert system">>, 0)
    ELSE IF diagnose_row.version # "2020"
    THEN Fail("AssertionError", <<"assert system", "assert version">>, 0)
    ELSE
    LET coding     == [system  |-> "http://fhir.de/CodeSystem/dimdi/icd-10-gm",
                       version |-> "2020",
                       code    |-> diagnose_row.code]
        code       == [coding |-> <<coding>>]
        identifier == construct_identifier(diagnose_row.id)
        subject    == patient_reference(subject_ref_id)
        steps      == <<"assert system", "assert version", "coding", "identifier", "subject">>
    IN
    IF ~subject.ok THEN Fail(subject.err, steps, 0)
    ELSE Ok([resource_type |-> "Condition",
             identifier    |-> identifier,
             subject       |-> subject.val,
             code          |-> code,
             category      |-> "encounter-diagnosis"],
            steps \o <<"code", "category">>, 0)

\* create_procedure(procedure_row, subject_ref_id)
create_procedure(procedure_row, subject_ref_id) ==
    IF procedure_row.code_system # "OPS" THEN Fail("AssertionError", <<"assert system">>, 0)
    ELSE IF procedure_row.code_version # "2020"
    THEN Fail("AssertionError", <<"assert system", "assert version">>, 0)
    ELSE
    LET coding     == [system  |-> "http://fhir.de/CodeSystem/dimdi/ops",
                       version |-> "2020",
                       code    |-> procedure_row.code]
        code       == [coding |-> <<coding>>]
        identifier == construct_identifier(procedure_row.id)
        subject    == patient_reference(subject_ref_id)
        steps      == <<"assert system", "assert version", "coding", "identifier",
                        "status", "subject">>
    IN
    IF ~subject.ok THEN Fail(subject.err, steps, 0)
    ELSE Ok([resource_type |-> "Procedure",
             identifier    |-> identifier,
             status        |-> "completed",
             subject       |-> subject.val,
             code          |-> code],
            steps \o <<"code">>, 0)

\* the loop target `column_name, (obs_loinc_code, unit, display)` bound to an
\* item of iterating the dict itself, which is a key k (a str): k must have
\* two characters and its second character must unpack into three names
LoopTargetBinds(k) == Len(k) = 2 /\ Len(CharAt(k, 2)) = 3

\* one pass of the loop body of create_observation, lines 196-220
observation_body(column_name, obs_loinc_code, unit, display, observation_row, subject_ref_id) ==
    LET warned == IF obs_loinc_code = "" THEN 1 ELSE 0
        coding == [system  |-> "http://loinc.org",
                   version |-> "2.69",
                   code    |-> obs_loinc_code,
                   display |-> display]
    IN
    IF column_name \notin DOMAIN observation_row
    THEN Fail("KeyError", <<"coding", "quantity">>, warned)
    ELSE
    LET quantity == [value |-> observation_row[column_name], unit |-> unit]
        subject  == patient_reference(subject_ref_id)
        steps    == <<"coding", "quantity", "status", "code", "subject">>
    IN
    IF ~subject.ok THEN Fail(subject.err, steps, warned)
    ELSE Ok([resource_type |-> "Observation",
             status        |-> "final",
             code          |-> coding,
             subject       |-> subject.val,
             valueQuantity |-> quantity],
            steps \o <<"valueQuantity">>, warned)

\* the for loop of create_observation from the i-th item of d on, with the
\* observations, steps and warnings collected so far
RECURSIVE observation_loop(_, _, _, _, _, _, _)
observation_loop(d, i, observation_row, subject_ref_id, acc, steps, warned) ==
    IF i > Len(d) THEN Ok(acc, steps, warned)
    ELSE
    LET k == d[i][1] IN
    IF ~LoopTargetBinds(k) THEN Fail("ValueError", steps \o <<"loop target">>, warned)
    ELSE
    LET inner == CharAt(k, 2)
        body  == observation_body(CharAt(k, 1), CharAt(inner, 1), CharAt(inner, 2),
                                  CharAt(inner, 3), observation_row, subject_ref_id)
    IN
    IF ~body.ok
    THEN Fail(body.err, steps \o <<"loop target">> \o body.steps, warned + body.warned)
    ELSE observation_loop(d, i + 1, observation_row, subject_ref_id,
                          Append(acc, body.val),
                          steps \o <<"loop target">> \o body.steps,
                          warned + body.warned)

\* create_observation(observation_row, subject_ref_id) against the dict d
create_observation(observation_row, subject_ref_id, d) ==
    observation_loop(d, 1, observation_row, subject_ref_id, <<>>, <<>>, 0)

(***************************************************************************)
(* Inputs                                                                  *)
(***************************************************************************)

\* values strftime('%z', gmtime()) can have
Zones == {"+0000", "+0100", "-0330"}

DateTimeInputs ==
    {"2021-03-04 10:15:30.1234",
     "2021-03-04 10:15:30.123",
     "2021-12-31 23:59:59.9996",
     "2021-03-04 10:15:30",
     "2021-03-04T10:15:30.123",
     "2021-03-04"}

DateInputs ==
    {"04.03.2021", "01.01.1980", "29.02.2020", "31.12.9999",
     "22.09.1677", "11.04.2262", "21.09.1677", "12.04.2262", "01.01.1600",
     "29.02.2021", "31.04.2021", "00.01.2021", "01.13.2021", "01.01.0000",
     "04.03.2021 10:00",
     "2021-03-04", "4.3.2021", "04.03.21", " 04.03.2021", "04-03-2021", ""}

GenderInputs == {"m", "f", "w", "x"}

ColumnInputs == DictKeys(LoincTable) \cup {"unknown-col"}

PatientRow(id, sex, dob) ==
    [id |-> id, first_name |-> "Anna", last_name |-> "Muster", sex |-> sex,
     date_of_birth |-> dob, street |-> "Main St", zip |-> 12345, city |-> "Berlin"]

PatientRows ==
    {PatientRow("P1", sex, dob) :
        sex \in GenderInputs,
        dob \in {"01.01.1980", "1980-01-01", "31.02.1980", "01.01.1600"}}
    \cup {PatientRow("P2", "m", "29.02.2020")}

EncounterRows ==
    {[id |-> "E1", admission |-> a, discharge |-> d] :
        a \in {"2021-03-04 10:15:30.1234", "2021-03-04T10:15:30.123", "2021-03-04 10:15:30"},
        d \in {"2021-03-05 08:00:00.000", "2021-03-05 08:00:00"}}

\* diagnosis rows as the loader names their columns, and rows that carry the
\* label `sytem` as well
ConditionRows ==
    {[id |-> "D1", system |-> sys, version |-> ver, code |-> "G47.31", type |-> "HD"] :
        sys \in {"ICD-10-GM", "OPS"}, ver \in {"2020", "2019"}}
    \cup
    {[id |-> "D1", system |-> sys, sytem |-> sys, version |-> ver, code |-> "G47.31",
      type |-> "HD"] :
        sys \in {"ICD-10-GM", "OPS"}, ver \in {"2020", "2019"}}

ProcedureRows ==
    {[id |-> "O1", code_system |-> sys, code_version |-> ver, code |-> "1-790"] :
        sys \in {"OPS", "ICD-10-GM"}, ver \in {"2020", "2019"}}

\* a row with a number under every column of the table, and one without AHI
FullObservationRow == [k \in DictKeys(LoincTable) |-> Len(k)]

ObservationRows ==
    {FullObservationRow,
     [k \in DictKeys(LoincTable) \ {"AHI"} |-> Len(k)]}

SubjectIds == {"P1"}

EncounterIds == {"E1"}

(***************************************************************************)
(* State machine: the driver calls one method at a time                    *)
(***************************************************************************)

NoCall == [op |-> "none", args |-> <<>>, clock |-> "unread", out |-> Fail("", <<>>, 0)]

Call(op, args, clock, out) == [op |-> op, args |-> args, clock |-> clock, out |-> out]

Builders ==
    {"create_encounter", "create_patient", "create_condition", "create_procedure",
     "create_observation"}

Counted == IF saved.op = "none" THEN 0 ELSE Min(between + 1, MaxBetween)

Init ==
    /\ mapping_dict = LoincTable
    /\ zone \in Zones
    /\ ns_only \in BOOLEAN
    /\ last = NoCall
    /\ saved = NoCall
    /\ between = 0

ParseDateTime(datetime_str) ==
    /\ last' = Call("parse_date_time", <<datetime_str>>, zone,
                    parse_date_time(datetime_str, zone))
    /\ between' = Counted
    /\ UNCHANGED <<mapping_dict, zone, ns_only, saved>>

ParseDate(date_str) ==
    /\ last' = Call("parse_date", <<date_str>>, "unread", parse_date(date_str, ns_only))
    /\ between' = Counted
    /\ UNCHANGED <<mapping_dict, zone, ns_only, saved>>

MapGender(gender) ==
    /\ last' = Call("map_gender", <<gender>>, "unread", map_gender(gender))
    /\ between' = Counted
    /\ UNCHANGED <<mapping_dict, zone, ns_only, saved>>

\* a lookup that takes the entry out of the dict (dict.pop in place of d[k])
ResolveObservationColumnPop(column_name) ==
    /\ last' = Call("resolve_observation_column", <<column_name>>, "unread",
                    resolve_observation_column(column_name, mapping_dict))
    /\ mapping_dict' = SelectSeq(mapping_dict, LAMBDA item : item[1] # column_name)
    /\ between' = Counted
    /\ UNCHANGED <<zone, ns_only, saved>>

ResolveObservationColumn(column_name) ==
    /\ last' = Call("resolve_observation_column", <<column_name>>, "unread",
                    resolve_observation_column(column_name, mapping_dict))
    /\ between' = Counted
    /\ UNCHANGED <<mapping_dict, zone, ns_only, saved>>

CreateEncounter(case_row, subject_ref_id) ==
    /\ last' = Call("create_encounter", <<case_row, subject_ref_id>>, zone,
                    create_encounter(case_row, subject_ref_id, zone))
    /\ between' = Counted
    /\ UNCHANGED <<mapping_dict, zone, ns_only, saved>>

CreatePatient(patient_row) ==
    /\ last' = Call("create_patient", <<patient_row>>, "unread",
                    create_patient(patient_row, ns_only))
    /\ between' = Counted
    /\ UNCHANGED <<mapping_dict, zone, ns_only, saved>>

CreateCondition(diagnose_row, subject_ref_id, encounter_ref_id) ==
    /\ last' = Call("create_condition", <<diagnose_row, subject_ref_id, encounter_ref_id>>,
                    "unread",
                    create_condition(diagnose_row, subject_ref_id, encounter_ref_id))
    /\ between' = Counted
    /\ UNCHANGED <<mapping_dict, zone, ns_only, saved>>

CreateProcedure(procedure_row, subject_ref_id) ==
    /\ last' = Call("create_procedure", <<procedure_row, subject_ref_id>>, "unread",
                    create_procedure(procedure_row, subject_ref_id))
    /\ between' = Counted
    /\ UNCHANGED <<mapping_dict, zone, ns_only, saved>>

CreateObservation(observation_row, subject_ref_id) ==
    /\ last' = Call("create_observation", <<observation_row, subject_ref_id>>, "unread",
                    create_observation(observation_row, subject_ref_id, mapping_dict))
    /\ between' = Counted
    /\ UNCHANGED <<mapping_dict, zone, ns_only, saved>>

\* the system's offset changes (daylight saving, a changed TZ setting)
ChangeZone(z) ==
    /\ z # zone
    /\ zone' = z
    /\ UNCHANGED <<mapping_dict, ns_only, last, saved, between>>

\* keep the builder call just made, to compare a later call with it
Remember ==
    /\ last.op \in Builders
    /\ saved' = last
    /\ between' = 0
    /\ UNCHANGED <<mapping_dict, zone, ns_only, last>>

HelperCalls ==
    \/ \E s \in DateTimeInputs : ParseDateTime(s)
    \/ \E s \in DateInputs : ParseDate(s)
    \/ \E g \in GenderInputs : MapGender(g)
    \/ \E c \in ColumnInputs : ResolveObservationColumn(c)

BuilderCalls ==
    \/ \E r \in EncounterRows, p \in SubjectIds : CreateEncounter(r, p)
    \/ \E r \in PatientRows : CreatePatient(r)
    \/ \E r \in ConditionRows, p \in SubjectIds, e \in EncounterIds : CreateCondition(r, p, e)
    \/ \E r \in ProcedureRows, p \in SubjectIds : CreateProcedure(r, p)
    \/ \E r \in ObservationRows, p \in SubjectIds : CreateObservation(r, p)

Next ==
    \/ HelperCalls
    \/ BuilderCalls
    \/ \E z \in Zones : ChangeZone(z)

Spec == Init /\ [][Next]_vars

\* the builders alone, with an earlier call remembered
NextRepeat ==
    \/ BuilderCalls
    \/ \E z \in Zones : ChangeZone(z)
    \/ Remember

SpecRepeat == Init /\ [][NextRepeat]_vars

(***************************************************************************)
(* Vocabulary of the properties                                            *)
(***************************************************************************)

AllDigits(s, positions) == \A i \in positions : IsDigit(CharAt(s, i))

\* "YYYY-MM-DD HH:MM:SS.f..." with at least three sub-second digits
WellFormedDateTime(s) ==
    /\ Len(s) >= 23
    /\ AllDigits(s, {1, 2, 3, 4, 6, 7, 9, 10, 12, 13, 15, 16, 18, 19} \cup 21..Len(s))
    /\ CharAt(s, 5) = "-" /\ CharAt(s, 8) = "-"
    /\ CharAt(s, 11) = " "
    /\ CharAt(s, 14) = ":" /\ CharAt(s, 17) = ":"
    /\ CharAt(s, 20) = "."

\* the zone string "+HHMM" written as "+HH:MM"
OffsetText(z) == SubSeq(z, 1, 3) \o ":" \o SubSeq(z, 4, 5)

\* date, "T", time of day, ".", the first three sub-second digits, the offset
ExpectedDateTime(s, z) ==
    SubSeq(s, 1, 10) \o "T" \o SubSeq(s, 12, 19) \o "." \o SubSeq(s, 21, 23) \o OffsetText(z)

LacksSeparator(s) == FindFrom(s, " ", 1) = 0 \/ FindFrom(s, ".", 1) = 0

\* two digits, dot, two digits, dot, four digits from the first character on
StartsLikeDate(s) ==
    /\ Len(s) >= 10
    /\ AllDigits(s, {1, 2, 4, 5, 7, 8, 9, 10})
    /\ CharAt(s, 3) = "." /\ CharAt(s, 6) = "."

DayOf(s) == int(SubSeq(s, 1, 2))
MonthOf(s) == int(SubSeq(s, 4, 5))
YearOf(s) == int(SubSeq(s, 7, 10))

\* s is "DD.MM.YYYY" and names a day of the calendar
RealCalendarDate(s) ==
    /\ Len(s) = 10
    /\ StartsLikeDate(s)
    /\ YearOf(s) >= 1
    /\ MonthOf(s) \in 1..12
    /\ DayOf(s) \in 1..DaysInMonth(YearOf(s), MonthOf(s))

\* between 22.09.1677 and 11.04.2262
InTimestampRange(s) ==
    /\ DateLeq(TsMinDate, <<YearOf(s), MonthOf(s), DayOf(s)>>)
    /\ DateLeq(<<YearOf(s), MonthOf(s), DayOf(s)>>, TsMaxDate)

\* "DD.MM.YYYY" rearranged to "YYYY-MM-DD"
Normalized(s) == SubSeq(s, 7, 10) \o "-" \o SubSeq(s, 4, 5) \o "-" \o SubSeq(s, 1, 2)

\* the steps that evaluate domain-specific fields
DomainSteps ==
    {"period.start", "period.end", "gender", "birthDate", "assert system",
     "assert version", "coding", "quantity"}

Before(steps, a, i) == \E j \in 1..(i - 1) : steps[j] = a

Occurs(steps, a) == \E j \in DOMAIN steps : steps[j] = a

(***************************************************************************)
(* Properties                                                              *)
(***************************************************************************)

\* C1: create_observation, for a row with a number under every key of the
\* table, returns exactly one Observation per table entry (13), each with
\* status "final", LOINC system and version 2.69, the entry's code and
\* display, and a quantity of the row's value in the entry's unit.
C1_OneObservationPerEntry ==
    (last.op = "create_observation" /\ last.args[1] = FullObservationRow) =>
        /\ last.out.ok
        /\ Len(last.out.val) = 13
        /\ Len(last.out.val) = Len(LoincTable)
        /\ \A i \in DOMAIN LoincTable :
            LET o == last.out.val[i]
                k == LoincTable[i][1]
                e == LoincTable[i][2]
            IN /\ o.status = "final"
               /\ o.code.system = "http://loinc.org"
               /\ o.code.version = "2.69"
               /\ o.code.code = e[1]
               /\ o.code.display = e[3]
               /\ o.valueQuantity = [value |-> FullObservationRow[k], unit |-> e[2]]

\* C2: resolve_observation_column returns the stored (code, unit, display)
\* for every column of the table, with a warning when the code is empty,
\* and fails for every other column name.
C2_ResolveReturnsStoredTriple ==
    last.op = "resolve_observation_column" =>
        LET c == last.args[1] IN
        /\ c \in DictKeys(LoincTable) =>
            /\ last.out.ok
            /\ last.out.val = DictGet(LoincTable, c)
            /\ (DictGet(LoincTable, c)[1] = "" => last.out.warned >= 1)
        /\ c \notin DictKeys(LoincTable) => ~last.out.ok

\* C3: for a well-formed input with at least three sub-second digits and any
\* system offset, parse_date_time returns date, "T", time of day, ".", the
\* first three sub-second digits and the offset as +HH:MM or -HH:MM, hours
\* before the colon and minutes after it.
C3_DateTimeWithOffset ==
    (last.op = "parse_date_time" /\ WellFormedDateTime(last.args[1])) =>
        /\ last.out.ok
        /\ last.out.val.origval = ExpectedDateTime(last.args[1], last.clock)

\* C4: create_condition fails unless the row's system is ICD-10-GM and its
\* version 2020, and for every such row returns a Condition with the
\* identifier row.id, subject Patient/<subjectId>, category
\* encounter-diagnosis and one ICD-10-GM 2020 coding of row.code.
C4_ConditionForIcdRows ==
    last.op = "create_condition" =>
        LET row == last.args[1] IN
        /\ (row.system # "ICD-10-GM" \/ row.version # "2020") => ~last.out.ok
        /\ (row.system = "ICD-10-GM" /\ row.version = "2020") =>
            /\ last.out.ok
            /\ last.out.val.identifier = <<Identifier(row.id)>>
            /\ last.out.val.subject.reference = "Patient/" \o last.args[2]
            /\ last.out.val.category = "encounter-diagnosis"
            /\ last.out.val.code.coding =
                   <<[system  |-> "http://fhir.de/CodeSystem/dimdi/icd-10-gm",
                      version |-> "2020",
                      code    |-> row.code]>>

\* what C5 says of a row whose sex is m, f or w and whose date of birth is
\* accepted: one identifier row.id, the mapped gender, the normalized date
PatientAsClaimed(row, out) ==
    /\ out.ok
    /\ Len(out.val.identifier) = 1
    /\ out.val.identifier[1].value = row.id
    /\ out.val.gender = (IF row.sex = "m" THEN "male" ELSE "female")
    /\ out.val.birthDate.origval = Normalized(row.date_of_birth)

\* C5 as stated: create_patient returns the Patient for every row with sex
\* m, f or w and a valid DD.MM.YYYY date of birth, and fails for any other
\* sex or a malformed date of birth.
C5_PatientForEveryValidDate ==
    last.op = "create_patient" =>
        LET row == last.args[1] IN
        /\ (row.sex \in {"m", "f", "w"} /\ RealCalendarDate(row.date_of_birth))
               => PatientAsClaimed(row, last.out)
        /\ (row.sex \notin {"m", "f", "w"} \/ ~StartsLikeDate(row.date_of_birth))
               => ~last.out.ok

\* C5 amended: the same, for dates of birth between 22.09.1677 and
\* 11.04.2262, the days a nanosecond Timestamp can hold.
C5_PatientForDatesInRange ==
    last.op = "create_patient" =>
        LET row == last.args[1] IN
        /\ (/\ row.sex \in {"m", "f", "w"}
            /\ RealCalendarDate(row.date_of_birth)
            /\ InTimestampRange(row.date_of_birth))
               => PatientAsClaimed(row, last.out)
        /\ (row.sex \notin {"m", "f", "w"} \/ ~StartsLikeDate(row.date_of_birth))
               => ~last.out.ok

C5_Witness ==
    /\ last.op = "create_patient"
    /\ last.args[1] = PatientRow("P1", "w", "01.01.1980")
    /\ last.out.ok
    /\ last.out.val.gender = "female"
    /\ last.out.val.birthDate.origval = "1980-01-01"

\* C6: create_encounter returns, for well-formed admission and discharge, an
\* Encounter with identifier row.id, status finished, the parsed period and
\* a subject of type Patient and text Patient/<subjectId>; and fails when
\* admission or discharge lacks the space or the dot.
C6_EncounterForWellFormedPeriod ==
    last.op = "create_encounter" =>
        LET row == last.args[1] IN
        /\ (WellFormedDateTime(row.admission) /\ WellFormedDateTime(row.discharge)) =>
            /\ last.out.ok
            /\ last.out.val.identifier = <<Identifier(row.id)>>
            /\ last.out.val.status = "finished"
            /\ last.out.val.period.start = parse_date_time(row.admission, last.clock).val
            /\ last.out.val.period.end = parse_date_time(row.discharge, last.clock).val
            /\ last.out.val.subject.type = "Patient"
            /\ last.out.val.subject.reference = "Patient/" \o last.args[2]
        /\ (LacksSeparator(row.admission) \/ LacksSeparator(row.discharge)) => ~last.out.ok

\* C7 as stated: parse_date returns YYYY-MM-DD with the same day, month and
\* year for every input DD.MM.YYYY that names a real calendar date, and
\* fails when the pattern does not match from the first character.
C7_ParseDateEveryRealDate ==
    last.op = "parse_date" =>
        LET s == last.args[1] IN
        /\ RealCalendarDate(s) =>
            (last.out.ok /\ last.out.val.origval = Normalized(s))
        /\ ~StartsLikeDate(s) => ~last.out.ok

\* C7 amended: the same, for real calendar dates between 22.09.1677 and
\* 11.04.2262.
C7_ParseDateInRange ==
    last.op = "parse_date" =>
        LET s == last.args[1] IN
        /\ (RealCalendarDate(s) /\ InTimestampRange(s)) =>
            (last.out.ok /\ last.out.val.origval = Normalized(s))
        /\ ~StartsLikeDate(s) => ~last.out.ok

C7_Witness ==
    /\ last.op = "parse_date"
    /\ last.args[1] = "04.03.2021"
    /\ last.out.ok
    /\ last.out.val.origval = "2021-03-04"

C10_TableNeverChanges ==
    /\ Len(mapping_dict) = 13
    /\ mapping_dict = LoincTable

C10_Witness ==
    /\ last.op = "resolve_observation_column"
    /\ last.args[1] = "RDI / AHI (n/h)"
    /\ ~last.out.ok

====
